---- MODULE Spec2Model ----
(***************************************************************************)
(* Model of update_vector_tile_layers.py: main(), add_vector_tile_layers() *)
(* remove_all_layers() and turn_on_layers_in_map(), together with the two  *)
(* resources they act on: the map of the ArcGIS Pro project (a table of    *)
(* contents of layers, group layers holding member layers) and the content *)
(* of ArcGIS Online (items with a title, an owner and a group sharing).    *)
(*                                                                         *)
(* Every vendor call is a step that either completes or raises.  One       *)
(* behaviour is a sequence of runs of main(); the map and the remote       *)
(* content persist from one run to the next.                               *)
(***************************************************************************)
EXTENDS Integers, Sequences, FiniteSets, TLC

\* Number of successive runs of the script a behaviour may hold.
MaxRuns == 2

------------------------------------------------------------------------------
\* Configuration

OWNER == "jhth490"

GROUP_ID == "4154c84c38204236a0a633665f040976"

\* Keys in dictionary order, each with its list of layer files.
VECTOR_LAYERS ==
    << [name |-> "Transportation",
        layers |-> << "State Lands - Active Roads Group",
                      "State Lands - Road Barriers" >>],
       [name |-> "Topography",
        layers |-> << "Contours 40, 200, 1000, 2000-foot (USGS DEM 10-meter)" >>],
       [name |-> "State Lands Knowledge",
        layers |-> << "1 All State Lands Knowledge by category" >>] >>

NumPackages == Len(VECTOR_LAYERS)

Range(s) == {s[n] : n \in DOMAIN s}

------------------------------------------------------------------------------
\* The map: a sequence of layers in table-of-contents order (a group layer
\* comes before its members).  parent = 0 for a top-level layer.  pkg is the
\* loop iteration of the current run that added the layer, 0 for a layer that
\* was in the map when the run began.

Layer(id, parent, isGroupLayer, visible, pkg) ==
    [id |-> id, parent |-> parent, isGroupLayer |-> isGroupLayer,
     visible |-> visible, pkg |-> pkg]

\* m.listLayers(): every layer of the map, members of group layers included.
listLayers(m) == m

LayerIds(m) == {l.id : l \in Range(m)}

\* TRUE iff layer l is the layer with id root or lies below it.
RECURSIVE InSubtree(_, _, _)
InSubtree(m, l, root) ==
    \/ l.id = root
    \/ /\ l.parent # 0
       /\ \E p \in Range(m) : p.id = l.parent /\ InSubtree(m, p, root)

\* Variant: the call returns and the map is as before.
removeLayer_NoEffect(m, id) == m

\* m.removeLayer(layer) for a layer of the map: the layer goes, and with a
\* group layer everything under it.
removeLayer(m, id) == SelectSeq(m, LAMBDA l : ~InSubtree(m, l, id))

\* The spatial reference layer m.addDataFromPath adds in iteration p.
RefLayerId(p) == 10 * p

\* m.addDataFromPath(SPATIAL_REFERENCE_LAYER): one plain layer, on top.
addDataFromPath(m, p) == << Layer(RefLayerId(p), 0, FALSE, TRUE, p) >> \o m

\* Contents of the .lyr file that is entry n of package p: the first file of
\* Transportation is a group layer with one member that is stored switched
\* off, the others are single layers.
LayerFile(p, n) ==
    LET base == 10 * p + 2 * n - 1
    IN IF p = 1 /\ n = 1
       THEN << Layer(base, 0, TRUE, TRUE, p), Layer(base + 1, base, FALSE, FALSE, p) >>
       ELSE << Layer(base, 0, FALSE, FALSE, p) >>

\* m.addLayer(layer): the layer file's layers, on top.
addLayer(m, p, n) == LayerFile(p, n) \o m

\* Variant: only the top-level layers are switched on.
turn_on_TopLevelOnly(m) ==
    [n \in DOMAIN m |-> IF m[n].parent = 0 THEN [m[n] EXCEPT !.visible = TRUE]
                                          ELSE m[n]]

\* turn_on_layers_in_map(m)
turn_on_layers_in_map(m) ==
    [n \in DOMAIN listLayers(m) |-> [listLayers(m)[n] EXCEPT !.visible = TRUE]]

\* Maps the project file may hold before the first run.
InitialMaps ==
    { << >>,
      << Layer(1, 0, FALSE, FALSE, 0) >>,
      << Layer(1, 0, TRUE, TRUE, 0), Layer(2, 1, FALSE, TRUE, 0) >>,
      << Layer(1, 0, TRUE, TRUE, 0), Layer(2, 1, TRUE, TRUE, 0),
         Layer(3, 2, FALSE, TRUE, 0) >>,
      << Layer(1, 0, FALSE, TRUE, 0), Layer(2, 0, TRUE, FALSE, 0),
         Layer(3, 2, FALSE, TRUE, 0) >> }

------------------------------------------------------------------------------
\* Remote content: a set of items.  age is "pre" for an item that existed
\* before the first run, "old" for one the script created in an earlier run,
\* "new" for one it created in the current run.

Item(title, type, owner, inGroup, age) ==
    [title |-> title, type |-> type, owner |-> owner, inGroup |-> inGroup,
     age |-> age]

\* gis.content.search(f'owner:{OWNER} AND title:{k} AND group:{GROUP_ID}')
SearchMatches(item, title) ==
    item.owner = OWNER /\ item.title = title /\ item.inGroup

search(r, title) == {item \in r : SearchMatches(item, title)}

\* Variant: the item stays in AGOL.
delete_ItemKept(r, item) == r

\* agol_item.delete()
delete(r, item) == r \ {item}

\* gis.content.add(...): the uploaded tile package, not yet shared.
NewPackage(title) == Item(title, "vtpk", OWNER, FALSE, "new")

\* vtpk.publish(): the hosted tile layer, not yet shared.
NewTileLayer(title) == Item(title, "tile", OWNER, FALSE, "new")

\* item.share(org=True, groups=[mobile_suma_group])
share(r, item) == (r \ {item}) \cup {[item EXCEPT !.inGroup = TRUE]}

InitialRemotes ==
    { {},
      { Item("Transportation", "vtpk", OWNER, TRUE, "pre"),
        Item("Transportation", "tile", OWNER, TRUE, "pre") },
      { Item("Transportation", "vtpk", OWNER, TRUE, "pre"),
        Item("Transportation", "vtpk", OWNER, FALSE, "pre"),
        Item("Topography", "tile", "someone_else", TRUE, "pre"),
        Item("State Lands Knowledge", "tile", OWNER, TRUE, "pre") } }

------------------------------------------------------------------------------
\* Control flow

\* Variant: the layers are not removed at the end of an iteration.
Successor_NoRemove(step) ==
    CASE step = "MakeFeatureLayer"        -> "addDataFromPath"
      [] step = "addDataFromPath"         -> "addLayer"
      [] step = "addLayer"                -> "turn_on_layers_in_map"
      [] step = "turn_on_layers_in_map"   -> "CreateVectorTilePackage"
      [] step = "CreateVectorTilePackage" -> "search"
      [] step = "search"                  -> "delete"
      [] step = "delete"                  -> "add"
      [] step = "add"                     -> "share"
      [] step = "share"                   -> "publish"
      [] step = "publish"                 -> "share_publish"
      [] step = "share_publish"           -> "for"
      [] step = "remove_all_layers"       -> "for"

\* Variant: the old items are searched and deleted before the local tile
\* package is built.
Successor_DeleteFirst(step) ==
    CASE step = "MakeFeatureLayer"        -> "addDataFromPath"
      [] step = "addDataFromPath"         -> "addLayer"
      [] step = "addLayer"                -> "turn_on_layers_in_map"
      [] step = "turn_on_layers_in_map"   -> "search"
      [] step = "search"                  -> "delete"
      [] step = "delete"                  -> "CreateVectorTilePackage"
      [] step = "CreateVectorTilePackage" -> "add"
      [] step = "add"                     -> "share"
      [] step = "share"                   -> "publish"
      [] step = "publish"                 -> "share_publish"
      [] step = "share_publish"           -> "remove_all_layers"
      [] step = "remove_all_layers"       -> "for"

\* The statements of one iteration of the loop of add_vector_tile_layers, in
\* the order the code executes them.
Successor(step) ==
    CASE step = "MakeFeatureLayer"        -> "addDataFromPath"
      [] step = "addDataFromPath"         -> "addLayer"
      [] step = "addLayer"                -> "turn_on_layers_in_map"
      [] step = "turn_on_layers_in_map"   -> "CreateVectorTilePackage"
      [] step = "CreateVectorTilePackage" -> "search"
      [] step = "search"                  -> "delete"
      [] step = "delete"                  -> "add"
      [] step = "add"                     -> "share"
      [] step = "share"                   -> "publish"
      [] step = "publish"                 -> "share_publish"
      [] step = "share_publish"           -> "remove_all_layers"
      [] step = "remove_all_layers"       -> "for"

\* Variant: a statement of add_vector_tile_layers that raised is tried again.
Handler_Retry(site, at) ==
    CASE site = "setup"    -> "except_setup"
      [] site = "pipeline" -> at
      [] site = "cleanup"  -> "done"

\* Where control goes when the statement at `at` raises: the except clause of
\* the try statement around it, or out of main() from the finally clause.
Handler(site, at) ==
    CASE site = "setup"    -> "except_setup"
      [] site = "pipeline" -> "except_pipeline"
      [] site = "cleanup"  -> "done"

VARIABLES
    map,              \* layers of the map MAP of the project
    remote,           \* items of ArcGIS Online
    pc,               \* statement main() is at
    k,                \* index in VECTOR_LAYERS of the loop's current key
    i,                \* index of the next layer file of the current key
    agol_items,       \* search result still to be deleted
    rmCaller,         \* line that called remove_all_layers: 113, 176 or 200
    layers_to_remove, \* list remove_all_layers iterates over
    idx,              \* position in layers_to_remove
    failure,          \* what raised inside the try statement of main()
    ret,              \* value of the return statement main() executed
    result,           \* how main() ended: "True", "False" or "raised"
    logged,           \* LOGGER.exception calls of this run
    cleanups,         \* times this run entered the finally clause
    cleanupFailed,    \* the finally clause raised
    trace,            \* calls add_vector_tile_layers attempted in this run
    remote0,          \* remote content when this run began
    run               \* number of this run

vars == << map, remote, pc, k, i, agol_items, rmCaller, layers_to_remove, idx,
           failure, ret, result, logged, cleanups, cleanupFailed, trace,
           remote0, run >>

loopVars == << k, i, agol_items >>
rmVars   == << rmCaller, layers_to_remove, idx >>
outVars  == << ret, result, logged, cleanups, cleanupFailed >>
runVars  == << remote0, run >>

NoFailure == [site |-> "none", pkg |-> 0, op |-> "none"]

Name(p) == VECTOR_LAYERS[p].name

Call(p, op, arg) == [pkg |-> p, op |-> op, arg |-> arg]

\* A number that tells apart the items one search can return.
ItemCode(item) ==
    (IF item.type = "vtpk" THEN 1 ELSE 2)
    + (CASE item.age = "pre" -> 0 [] item.age = "old" -> 2 [] item.age = "new" -> 4)

Init ==
    /\ map \in InitialMaps
    /\ remote \in InitialRemotes
    /\ pc = "setup"
    /\ k = 0
    /\ i = 1
    /\ agol_items = {}
    /\ rmCaller = 0
    /\ layers_to_remove = << >>
    /\ idx = 1
    /\ failure = NoFailure
    /\ ret = "none"
    /\ result = "none"
    /\ logged = 0
    /\ cleanups = 0
    /\ cleanupFailed = FALSE
    /\ trace = << >>
    /\ remote0 = remote
    /\ run = 1

\* An exception leaves the statement `op` of iteration p (0: outside the loop)
\* of add_vector_tile_layers.
RaiseInPipeline(p, op) ==
    /\ failure' = [site |-> "pipeline", pkg |-> p, op |-> op]
    /\ pc' = Handler("pipeline", pc)

\* A statement of the loop body that calls the vendor once: the call is
\* attempted, and either completes with `effect` or raises.
LoopCall(op, arg, effect) ==
    /\ pc = op
    /\ trace' = Append(trace, Call(k, op, arg))
    /\ \E ok \in BOOLEAN :
          IF ok
          THEN effect /\ UNCHANGED failure
          ELSE /\ RaiseInPipeline(k, op)
               /\ UNCHANGED << map, remote, loopVars >>
    /\ UNCHANGED << rmVars, outVars, runVars >>

------------------------------------------------------------------------------
\* main()

\* lines 181-185: utilities.setup_arcpy_environment()
setup_arcpy_environment ==
    /\ pc = "setup"
    /\ \E ok \in BOOLEAN :
          IF ok
          THEN pc' = "open" /\ UNCHANGED failure
          ELSE /\ failure' = [site |-> "setup", pkg |-> 0,
                              op |-> "setup_arcpy_environment"]
               /\ pc' = Handler("setup", pc)
    /\ UNCHANGED << map, remote, loopVars, rmVars, outVars, trace, runVars >>

\* lines 183-185 and 188-190: LOGGER.debug(...); raise Exception
ExceptInner ==
    /\ pc \in {"except_setup", "except_pipeline"}
    /\ pc' = "except_outer"
    /\ UNCHANGED << map, remote, loopVars, rmVars, failure, outVars, trace,
                    runVars >>

\* lines 192-195: LOGGER.exception(e); return False
ExceptOuter ==
    /\ pc = "except_outer"
    /\ logged' = logged + 1
    /\ ret' = "False"
    /\ pc' = "finally"
    /\ UNCHANGED << map, remote, loopVars, rmVars, failure, result, cleanups,
                    cleanupFailed, trace, runVars >>

\* line 191: return True
ReturnTrue ==
    /\ pc = "return_true"
    /\ ret' = "True"
    /\ pc' = "finally"
    /\ UNCHANGED << map, remote, loopVars, rmVars, failure, result, logged,
                    cleanups, cleanupFailed, trace, runVars >>

\* lines 196-200: the finally clause opens the project and the map and calls
\* remove_all_layers; an exception here leaves main().
Finally ==
    /\ pc = "finally"
    /\ cleanups' = cleanups + 1
    /\ \E ok \in BOOLEAN :
          IF ok
          THEN /\ pc' = "rm_list_groups"
               /\ rmCaller' = 200
               /\ UNCHANGED << cleanupFailed, result >>
          ELSE /\ pc' = Handler("cleanup", pc)
               /\ cleanupFailed' = TRUE
               /\ result' = "raised"
               /\ UNCHANGED rmCaller
    /\ UNCHANGED << map, remote, loopVars, layers_to_remove, idx, failure, ret,
                    logged, trace, runVars >>

------------------------------------------------------------------------------
\* remove_all_layers(m)

\* An exception leaves remove_all_layers: into the except clause of main()
\* when add_vector_tile_layers called it, out of main() when the finally
\* clause did.
RaiseInRemove ==
    IF rmCaller = 200
    THEN /\ pc' = Handler("cleanup", pc)
         /\ cleanupFailed' = TRUE
         /\ result' = "raised"
         /\ UNCHANGED failure
    ELSE /\ RaiseInPipeline(k, "remove_all_layers")
         /\ UNCHANGED << cleanupFailed, result >>

\* line 79: group_layers_to_remove = m.listLayers()
RemoveListGroups ==
    /\ pc = "rm_list_groups"
    /\ layers_to_remove' = listLayers(map)
    /\ idx' = 1
    /\ pc' = "rm_groups"
    /\ UNCHANGED << map, remote, loopVars, rmCaller, failure, outVars, trace,
                    runVars >>

\* m.removeLayer(layer) is called for entry idx of the list; the call
\* completes or raises.
RemoveLayerCall ==
    \E ok \in BOOLEAN :
       IF ok
       THEN /\ map' = removeLayer(map, layers_to_remove[idx].id)
            /\ idx' = idx + 1
            /\ UNCHANGED << pc, failure, cleanupFailed, result >>
       ELSE /\ RaiseInRemove
            /\ UNCHANGED << map, idx >>

\* lines 80-83: one iteration of the first loop, or its end.
RemoveGroupLayers ==
    /\ pc = "rm_groups"
    /\ IF idx > Len(layers_to_remove)
       THEN /\ pc' = "rm_list_layers"
            /\ UNCHANGED << map, idx, failure, cleanupFailed, result >>
       ELSE IF layers_to_remove[idx].isGroupLayer
            THEN RemoveLayerCall
            ELSE /\ idx' = idx + 1
                 /\ UNCHANGED << map, pc, failure, cleanupFailed, result >>
    /\ UNCHANGED << remote, loopVars, rmCaller, layers_to_remove, ret, logged,
                    cleanups, trace, runVars >>

\* lines 85-86: layers_to_remove = m.listLayers()
RemoveListLayers ==
    /\ pc = "rm_list_layers"
    /\ layers_to_remove' = listLayers(map)
    /\ idx' = 1
    /\ pc' = "rm_layers"
    /\ UNCHANGED << map, remote, loopVars, rmCaller, failure, outVars, trace,
                    runVars >>

\* lines 87-89: one iteration of the second loop.
RemoveLayers ==
    /\ pc = "rm_layers"
    /\ idx <= Len(layers_to_remove)
    /\ RemoveLayerCall
    /\ UNCHANGED << remote, loopVars, rmCaller, layers_to_remove, ret, logged,
                    cleanups, trace, runVars >>

\* The second loop has ended and remove_all_layers returns to its caller:
\* line 115, the next iteration of the loop at line 117, or the end of main()
\* (lines 201-202), which then yields the value of its return statement.
RemoveReturn ==
    /\ pc = "rm_layers"
    /\ idx > Len(layers_to_remove)
    /\ pc' = CASE rmCaller = 113 -> "get_group"
               [] rmCaller = 176 -> Successor("remove_all_layers")
               [] rmCaller = 200 -> "done"
    /\ result' = IF rmCaller = 200 THEN ret ELSE result
    /\ UNCHANGED << map, remote, loopVars, rmVars, failure, ret, logged,
                    cleanups, cleanupFailed, trace, runVars >>

------------------------------------------------------------------------------
\* add_vector_tile_layers(vector_layers)

\* lines 109-113: open the project, the map and the connection to AGOL, then
\* call remove_all_layers(m).
Open ==
    /\ pc = "open"
    /\ \E ok \in BOOLEAN :
          IF ok
          THEN pc' = "rm_list_groups" /\ rmCaller' = 113 /\ UNCHANGED failure
          ELSE RaiseInPipeline(0, "open") /\ UNCHANGED rmCaller
    /\ UNCHANGED << map, remote, loopVars, layers_to_remove, idx, outVars,
                    trace, runVars >>

\* lines 115-116: mobile_suma_group = gis.groups.get(GROUP_ID)
GetGroup ==
    /\ pc = "get_group"
    /\ \E ok \in BOOLEAN :
          IF ok
          THEN pc' = "for" /\ UNCHANGED failure
          ELSE RaiseInPipeline(0, "groups.get")
    /\ UNCHANGED << map, remote, loopVars, rmVars, outVars, trace, runVars >>

\* line 117: for k, v in vector_layers.items(): the next key, or the end of
\* the loop and of the function.
For ==
    /\ pc = "for"
    /\ IF k < NumPackages
       THEN k' = k + 1 /\ i' = 1 /\ pc' = "MakeFeatureLayer"
       ELSE pc' = "return_true" /\ UNCHANGED << k, i >>
    /\ UNCHANGED << map, remote, agol_items, rmVars, failure, outVars, trace,
                    runVars >>

\* lines 121-124: arcpy.MakeFeatureLayer_management(...)
MakeFeatureLayer ==
    LoopCall("MakeFeatureLayer", 0,
             /\ pc' = Successor("MakeFeatureLayer")
             /\ UNCHANGED << map, remote, loopVars >>)

\* lines 125-126: m.addDataFromPath(SPATIAL_REFERENCE_LAYER)
AddDataFromPath ==
    LoopCall("addDataFromPath", 0,
             /\ map' = addDataFromPath(map, k)
             /\ pc' = Successor("addDataFromPath")
             /\ UNCHANGED << remote, loopVars >>)

\* lines 127-130: one iteration of `for i in v`.
AddLayer ==
    /\ pc = "addLayer"
    /\ i <= Len(VECTOR_LAYERS[k].layers)
    /\ LoopCall("addLayer", i,
                /\ map' = addLayer(map, k, i)
                /\ i' = i + 1
                /\ UNCHANGED << pc, remote, k, agol_items >>)

\* line 127: the list v is exhausted.
AddLayerEnd ==
    /\ pc = "addLayer"
    /\ i > Len(VECTOR_LAYERS[k].layers)
    /\ pc' = Successor("addLayer")
    /\ UNCHANGED << map, remote, loopVars, rmVars, failure, outVars, trace,
                    runVars >>

\* lines 131-132: turn_on_layers_in_map(m)
TurnOnLayers ==
    LoopCall("turn_on_layers_in_map", 0,
             /\ map' = turn_on_layers_in_map(map)
             /\ pc' = Successor("turn_on_layers_in_map")
             /\ UNCHANGED << remote, loopVars >>)

\* lines 133-140: arcpy.CreateVectorTilePackage_management(m, ...)
CreateVectorTilePackage ==
    LoopCall("CreateVectorTilePackage", 0,
             /\ pc' = Successor("CreateVectorTilePackage")
             /\ UNCHANGED << map, remote, loopVars >>)

\* lines 145-150: agol_items = gis.content.search(...)
Search ==
    LoopCall("search", 0,
             /\ agol_items' = search(remote, Name(k))
             /\ pc' = Successor("search")
             /\ UNCHANGED << map, remote, k, i >>)

\* lines 151-154: one iteration of `for agol_item in agol_items`.
Delete ==
    \E item \in agol_items :
       LoopCall("delete", ItemCode(item),
                /\ remote' = delete(remote, item)
                /\ agol_items' = agol_items \ {item}
                /\ UNCHANGED << pc, map, k, i >>)

\* lines 151-156: nothing (more) to delete.
DeleteEnd ==
    /\ pc = "delete"
    /\ agol_items = {}
    /\ pc' = Successor("delete")
    /\ UNCHANGED << map, remote, loopVars, rmVars, failure, outVars, trace,
                    runVars >>

\* lines 157-164: vtpk = gis.content.add(...)
Add ==
    LoopCall("add", 0,
             /\ remote' = remote \cup {NewPackage(Name(k))}
             /\ pc' = Successor("add")
             /\ UNCHANGED << map, loopVars >>)

\* line 168: vtpk.share(org=True, groups=[mobile_suma_group])
Share ==
    LoopCall("share", 0,
             /\ remote' = share(remote, NewPackage(Name(k)))
             /\ pc' = Successor("share")
             /\ UNCHANGED << map, loopVars >>)

\* lines 169-170: publish = vtpk.publish()
Publish ==
    LoopCall("publish", 0,
             /\ remote' = remote \cup {NewTileLayer(Name(k))}
             /\ pc' = Successor("publish")
             /\ UNCHANGED << map, loopVars >>)

\* line 171: publish.share(org=True, groups=[mobile_suma_group])
SharePublish ==
    LoopCall("share_publish", 0,
             /\ remote' = share(remote, NewTileLayer(Name(k)))
             /\ pc' = Successor("share_publish")
             /\ UNCHANGED << map, loopVars >>)

\* lines 173-176: remove_all_layers(m) at the end of the loop body.
RemoveAtEndOfIteration ==
    /\ pc = "remove_all_layers"
    /\ trace' = Append(trace, Call(k, "remove_all_layers", 0))
    /\ pc' = "rm_list_groups"
    /\ rmCaller' = 176
    /\ UNCHANGED << map, remote, loopVars, layers_to_remove, idx, failure,
                    outVars, runVars >>

------------------------------------------------------------------------------
\* The script is started again (lines 205-209 of a later run).  What the
\* earlier run left in the map and in AGOL is what the new run finds.
NewRun ==
    /\ pc = "done"
    /\ run < MaxRuns
    /\ run' = run + 1
    /\ map' = [n \in DOMAIN map |-> [map[n] EXCEPT !.pkg = 0]]
    /\ remote' = {IF item.age = "new" THEN [item EXCEPT !.age = "old"] ELSE item :
                    item \in remote}
    /\ remote0' = remote'
    /\ pc' = "setup"
    /\ k' = 0
    /\ i' = 1
    /\ agol_items' = {}
    /\ rmCaller' = 0
    /\ layers_to_remove' = << >>
    /\ idx' = 1
    /\ failure' = NoFailure
    /\ ret' = "none"
    /\ result' = "none"
    /\ logged' = 0
    /\ cleanups' = 0
    /\ cleanupFailed' = FALSE
    /\ trace' = << >>

Next ==
    \/ setup_arcpy_environment
    \/ ExceptInner
    \/ ExceptOuter
    \/ ReturnTrue
    \/ Finally
    \/ RemoveListGroups
    \/ RemoveGroupLayers
    \/ RemoveListLayers
    \/ RemoveLayers
    \/ RemoveReturn
    \/ Open
    \/ GetGroup
    \/ For
    \/ MakeFeatureLayer
    \/ AddDataFromPath
    \/ AddLayer
    \/ AddLayerEnd
    \/ TurnOnLayers
    \/ CreateVectorTilePackage
    \/ Search
    \/ Delete
    \/ DeleteEnd
    \/ Add
    \/ Share
    \/ Publish
    \/ SharePublish
    \/ RemoveAtEndOfIteration
    \/ NewRun

Spec == Init /\ [][Next]_vars

------------------------------------------------------------------------------
\* Properties

\* Items of r that carry the title of package p.
TitleItems(r, p) == {item \in r : item.title = Name(p)}

\* The tile package and the hosted tile layer a complete iteration for
\* package p leaves in AGOL.
Published(p) ==
    { Item(Name(p), "vtpk", OWNER, TRUE, "new"),
      Item(Name(p), "tile", OWNER, TRUE, "new") }

\* The steps that build the local tile package of an iteration.
LocalSteps ==
    { "MakeFeatureLayer", "addDataFromPath", "addLayer",
      "turn_on_layers_in_map", "CreateVectorTilePackage" }

\* C1: when add_vector_tile_layers has returned (no call raised), for every
\* package of the configuration every item the search matched before the run
\* is gone from AGOL, the new tile package and the tile layer published from it
\* are there, and they are the only items the search now matches.
C1_PreviousVersionReplaced ==
    pc = "return_true" =>
        \A p \in 1..NumPackages :
            /\ \A item \in search(remote0, Name(p)) : item \notin remote
            /\ Published(p) \subseteq remote
            /\ search(remote, Name(p)) = Published(p)

\* A run has completed for a package that had a published version.
C1_Witness ==
    /\ pc = "return_true"
    /\ search(remote0, Name(1)) # {}
    /\ search(remote0, Name(3)) # {}

\* C2: main() ends with True exactly when neither setup_arcpy_environment nor
\* add_vector_tile_layers raised, and with False and one logged exception when
\* either raised.
C2_MainReturnsBoolean ==
    pc = "done" =>
        /\ result = "True" <=> failure.site = "none"
        /\ failure.site # "none" => result = "False" /\ logged = 1

\* C3: whichever way main() ends, the finally clause was entered exactly once,
\* and if the cleanup did not raise the map holds no layer.
C3_CleanupOnceAndMapEmpty ==
    /\ cleanups <= 1
    /\ pc = "done" => /\ cleanups = 1
                      /\ ~cleanupFailed => map = << >>

\* main() has ended after a failure that left layers in the map, and the
\* cleanup went through.
C3_Witness ==
    /\ pc = "done"
    /\ ~cleanupFailed
    /\ failure.site = "pipeline"
    /\ failure.pkg = 2
    /\ failure.op = "CreateVectorTilePackage"

\* C4: when the cleanup of the finally clause raises, main() still ends with
\* the boolean chosen by the try/except part.
C4_CleanupFailureSilent ==
    pc = "done" /\ cleanupFailed => result = ret /\ result \in {"True", "False"}

\* C5: no call is attempted twice in a run (per package, layer file and item),
\* and the call that raised is the last call the run attempted: nothing of the
\* same package or of a later package follows it, and after it main() is only
\* in its except clauses, in the cleanup of its finally clause, or at its end.
C5_NoRetryNoResume ==
    /\ \A m, n \in DOMAIN trace : trace[m] = trace[n] => m = n
    /\ failure.site # "none" =>
          \/ pc \in {"except_setup", "except_pipeline", "except_outer",
                     "finally", "done"}
          \/ /\ pc \in {"rm_list_groups", "rm_groups", "rm_list_layers", "rm_layers"}
             /\ rmCaller = 200
    /\ failure.site = "setup" => trace = << >>
    /\ failure.site = "pipeline" =>
          IF failure.pkg = 0
          THEN trace = << >>
          ELSE /\ trace # << >>
               /\ trace[Len(trace)].pkg = failure.pkg
               /\ trace[Len(trace)].op = failure.op

\* A call in the middle of an iteration raised and main() has ended.
C5_Witness ==
    /\ pc = "done"
    /\ failure.site = "pipeline"
    /\ failure.pkg = 2
    /\ failure.op = "add"

\* Ids of the layers an iteration for package p puts in the map.
PackageLayerIds(p) ==
    {RefLayerId(p)} \cup
    UNION { LayerIds(LayerFile(p, n)) : n \in 1..Len(VECTOR_LAYERS[p].layers) }

\* C6: whenever CreateVectorTilePackage is about to be called for package k,
\* the map holds the spatial reference layer and the layers of the layer files
\* of k, each once, all added in this iteration, and nothing else.
C6_MapAtPackaging ==
    pc = "CreateVectorTilePackage" =>
        /\ \A l \in Range(map) : l.pkg = k
        /\ LayerIds(map) = PackageLayerIds(k)
        /\ Cardinality(LayerIds(map)) = Len(map)

\* The last package is about to be built after a run that found layers in the
\* map and items in AGOL.
C6_Witness ==
    /\ pc = "CreateVectorTilePackage"
    /\ k = NumPackages
    /\ run = 2

\* The calls one complete iteration for package p makes, in order; found is
\* the number of items its search returns.
IterationCalls(p, found) ==
    << Call(p, "MakeFeatureLayer", 0), Call(p, "addDataFromPath", 0) >>
    \o [n \in 1..Len(VECTOR_LAYERS[p].layers) |-> Call(p, "addLayer", n)]
    \o << Call(p, "turn_on_layers_in_map", 0),
          Call(p, "CreateVectorTilePackage", 0),
          Call(p, "search", 0) >>
    \o [n \in 1..found |-> Call(p, "delete", 0)]
    \o << Call(p, "add", 0), Call(p, "share", 0), Call(p, "publish", 0),
          Call(p, "share_publish", 0), Call(p, "remove_all_layers", 0) >>

RECURSIVE RunCalls(_)
RunCalls(p) ==
    IF p = 0 THEN << >>
    ELSE RunCalls(p - 1) \o IterationCalls(p, Cardinality(search(remote0, Name(p))))

\* The trace without the identity of the deleted items.
Steps(t) == [n \in DOMAIN t |-> [t[n] EXCEPT !.arg = IF t[n].op = "delete" THEN 0 ELSE @]]

\* C7: a run without failure has made exactly the calls of one iteration per
\* package, in configuration order and in the order of the code, deleting each
\* item found once; the reference layer is in the map while data layers are
\* added, and every layer is visible when the package is created.
C7_StepOrder ==
    /\ pc = "return_true" =>
          /\ Steps(trace) = RunCalls(NumPackages)
          /\ \A p \in 1..NumPackages :
                { trace[n].arg : n \in { x \in DOMAIN trace :
                      trace[x].pkg = p /\ trace[x].op = "delete" } }
                = { ItemCode(item) : item \in search(remote0, Name(p)) }
    /\ pc = "addLayer" => RefLayerId(k) \in LayerIds(map)
    /\ pc = "CreateVectorTilePackage" => \A l \in Range(map) : l.visible

\* A run without failure that deleted two items of one package.
C7_Witness ==
    /\ pc = "return_true"
    /\ \E m, n \in DOMAIN trace :
          /\ m < n
          /\ trace[m].op = "delete" /\ trace[n].op = "delete"
          /\ trace[m].pkg = trace[n].pkg

\* C8: remove_all_layers only asks the map to remove layers that are in it,
\* has removed every group layer when it starts on the other layers, and
\* leaves the map empty when it returns.
C8_RemoveAllLayers ==
    /\ pc \in {"rm_groups", "rm_layers"} /\ idx <= Len(layers_to_remove)
         /\ (pc = "rm_layers" \/ layers_to_remove[idx].isGroupLayer)
         => layers_to_remove[idx].id \in LayerIds(map)
    /\ pc = "rm_layers" => \A l \in Range(map) : ~l.isGroupLayer
    /\ pc = "rm_layers" /\ idx > Len(layers_to_remove) => map = << >>

\* C9: when a step that builds the local tile package of package k raised,
\* the items of k and of every later package are those AGOL held when the run
\* began; and the items of a package differ from those only once its
\* CreateVectorTilePackage call has been made and followed by another call.
C9_RemoteUntouchedBeforePackaging ==
    /\ failure.site = "pipeline" /\ failure.op \in LocalSteps =>
          \A p \in failure.pkg..NumPackages :
              TitleItems(remote, p) = TitleItems(remote0, p)
    /\ \A p \in 1..NumPackages :
          TitleItems(remote, p) # TitleItems(remote0, p) =>
              \E n \in DOMAIN trace :
                  /\ n < Len(trace)
                  /\ trace[n] = Call(p, "CreateVectorTilePackage", 0)

\* Packaging raised for the second package after the first was republished,
\* and the third has items in AGOL.
C9_Witness ==
    /\ failure.site = "pipeline"
    /\ failure.op = "CreateVectorTilePackage"
    /\ failure.pkg = 2
    /\ TitleItems(remote, 1) # TitleItems(remote0, 1)
    /\ TitleItems(remote0, 3) # {}

\* C10: from the upload of package k on, AGOL holds no item of that title that
\* the script created in an earlier run.
C10_NoLeftoverAtUpload ==
    pc \in {"add", "share", "publish", "share_publish"} =>
        \A item \in TitleItems(remote, k) : item.age # "old"

====
